---- MODULE Spec2Model ----
(***************************************************************************)
(* Model of PolygonalROIVehicleCounter (src/main.ipynb): the ROI           *)
(* definition, the vehicle-in-ROI classifier, process_frame's counting and *)
(* history bookkeeping, and the run loop with its reset and quit keys.     *)
(*                                                                         *)
(* The tracker (model.track) is the environment: each frame it hands       *)
(* process_frame a list of detections (track id, class id, box, conf).     *)
(* Pixel coordinates are integers.  The classifier's sample points are     *)
(* half-integers ((x1 + x2) / 2), so the polygon test works on doubled     *)
(* coordinates, which keeps every comparison of the code exact.            *)
(* Drawing (draw_annotations, draw_roi, draw_statistics) and the CLAHE     *)
(* pre-processing change no field of the counter and are left out.         *)
(***************************************************************************)
EXTENDS Integers, Sequences, FiniteSets, TLC

(***************************************************************************)
(* Bounds of the model.                                                    *)
(***************************************************************************)
\* frames processed in a run of Spec
MaxFrames == 3
\* vertices clicked during an interactive definition
MaxPts == 3
\* frames processed under SpecApi (direct calls of the methods)
MaxApiFrames == 1
\* frames processed under SpecHist (one identity followed for a long time)
MaxSightings == 41
\* direct calls of process_frame under SpecCalls
MaxCalls == 2

(***************************************************************************)
(* Program constants.                                                      *)
(***************************************************************************)
\* len(self.track_history[track_id]) > 30
HistoryCap == 30
\* display_width, display_height = 1280, 720
display_width == 1280
display_height == 720

\* self.vehicle_classes
vehicle_classes ==
    (2 :> "car") @@ (3 :> "motorcycle") @@ (5 :> "bus") @@ (7 :> "truck")

\* a mutated default: a class outside the vocabulary is taken for a car
ClassName_default_car(cls) ==
    IF cls \in DOMAIN vehicle_classes THEN vehicle_classes[cls] ELSE "car"

\* self.vehicle_classes.get(cls, 'unknown')
ClassName(cls) ==
    IF cls \in DOMAIN vehicle_classes THEN vehicle_classes[cls] ELSE "unknown"

(***************************************************************************)
(* Dictionaries: a dict is a function whose domain is its key set.         *)
(***************************************************************************)
EmptyDict == [k \in {} |-> 0]

DictPut(f, k, v) == [x \in (DOMAIN f) \cup {k} |-> IF x = k THEN v ELSE f[x]]

\* defaultdict(int)[k] and defaultdict(list)[k] read the default for a new key
DictGet(f, k, default) == IF k \in DOMAIN f THEN f[k] ELSE default

RECURSIVE SumOver(_, _)
SumOver(f, keys) ==
    IF keys = {} THEN 0
    ELSE LET k == CHOOSE x \in keys : TRUE
         IN  f[k] + SumOver(f, keys \ {k})

\* sum(vehicle_counts.values())
SumValues(f) == SumOver(f, DOMAIN f)

(***************************************************************************)
(* Arithmetic of the code.                                                 *)
(***************************************************************************)
\* int(n / 2): float division, then truncation towards zero
TruncHalf(n) == IF n >= 0 THEN n \div 2 ELSE -((-n) \div 2)

\* int(width * 0.1): the double nearest 0.1 is above 1/10, so the product
\* never falls below an exact multiple; the result is floor(width / 10)
Margin10(width) == width \div 10

\* int(height * 0.15): equals floor(15 * height / 100) for every height of a
\* frame (checked for 0..5000 against the float product)
Margin15(height) == (15 * height) \div 100

\* cx, cy = int((box[0] + box[2]) / 2), int((box[1] + box[3]) / 2)
Centroid(box) == << TruncHalf(box[1] + box[3]), TruncHalf(box[2] + box[4]) >>

(***************************************************************************)
(* cv2.pointPolygonTest(contour, pt, False): +1 inside, 0 on an edge or a  *)
(* vertex, -1 outside.  One pass over the edges (v0, v): an edge that the  *)
(* horizontal ray from pt cannot cross is skipped after the on-edge test,  *)
(* otherwise the sign of the cross product decides; the first on-edge hit  *)
(* returns 0, else the parity of the crossings decides.                    *)
(***************************************************************************)
EdgeSkipped(v0, v, pt) ==
    \/ (v0[2] <= pt[2] /\ v[2] <= pt[2])
    \/ (v0[2] > pt[2] /\ v[2] > pt[2])
    \/ (v0[1] < pt[1] /\ v[1] < pt[1])

EdgeDist(v0, v, pt) ==
    (pt[2] - v0[2]) * (v[1] - v0[1]) - (pt[1] - v0[1]) * (v[2] - v0[2])

OnEdge(v0, v, pt) ==
    IF EdgeSkipped(v0, v, pt)
    THEN /\ pt[2] = v[2]
         /\ \/ pt[1] = v[1]
            \/ /\ pt[2] = v0[2]
               /\ \/ (v0[1] <= pt[1] /\ pt[1] <= v[1])
                  \/ (v[1] <= pt[1] /\ pt[1] <= v0[1])
    ELSE EdgeDist(v0, v, pt) = 0

EdgeCrossed(v0, v, pt) ==
    /\ ~EdgeSkipped(v0, v, pt)
    /\ LET dist == EdgeDist(v0, v, pt)
       IN  (IF v[2] < v0[2] THEN -dist ELSE dist) > 0

PrevVertex(contour, i) == contour[IF i = 1 THEN Len(contour) ELSE i - 1]

PointPolygonTest(contour, pt) ==
    LET edges == 1..Len(contour)
    IN  IF \E i \in edges : OnEdge(PrevVertex(contour, i), contour[i], pt)
        THEN 0
        ELSE LET counter ==
                    Cardinality({i \in edges :
                        EdgeCrossed(PrevVertex(contour, i), contour[i], pt)})
             IN  IF counter % 2 = 0 THEN -1 ELSE 1

\* np.array(self.roi_points), on the doubled grid of the sample points
Doubled(points) == [i \in 1..Len(points) |-> << 2 * points[i][1], 2 * points[i][2] >>]

(***************************************************************************)
(* is_point_in_roi(point); point is given on the doubled grid.             *)
(***************************************************************************)
is_point_in_roi(points, defined, point) ==
    IF ~defined \/ Len(points) < 3
    THEN TRUE
    ELSE PointPolygonTest(Doubled(points), point) >= 0

\* check_points of is_vehicle_in_roi, on the doubled grid:
\* center, four corners, four edge midpoints
check_points(box) ==
    LET x1 == box[1]
        y1 == box[2]
        x2 == box[3]
        y2 == box[4]
    IN  << << x1 + x2, y1 + y2 >>,
           << 2 * x1, 2 * y1 >>, << 2 * x2, 2 * y1 >>,
           << 2 * x1, 2 * y2 >>, << 2 * x2, 2 * y2 >>,
           << x1 + x2, 2 * y1 >>, << x1 + x2, 2 * y2 >>,
           << 2 * x1, y1 + y2 >>, << 2 * x2, y1 + y2 >> >>

\* the for loop that counts points_inside
RECURSIVE points_inside(_, _, _)
points_inside(points, defined, cps) ==
    IF cps = << >> THEN 0
    ELSE (IF is_point_in_roi(points, defined, Head(cps)) THEN 1 ELSE 0)
         + points_inside(points, defined, Tail(cps))

\* the vote of is_vehicle_in_roi over its check points:
\* points_inside >= len(check_points) * 0.3
Vote(points, defined, box) ==
    10 * points_inside(points, defined, check_points(box))
        >= 3 * Len(check_points(box))

(***************************************************************************)
(* The automatic polygons, for a frame of the given width and height.      *)
(***************************************************************************)
\* auto_define_roi: top, right, bottom, left
\* a mutated rhombus: the two margins are taken of the wrong dimension
RhombusPoints_margins_swapped(width, height) ==
    LET center_x == width \div 2
        center_y == height \div 2
        margin_x == Margin10(height)
        margin_y == Margin15(width)
    IN  << << center_x, margin_y >>,
           << width - margin_x, center_y >>,
           << center_x, height - margin_y >>,
           << margin_x, center_y >> >>

RhombusPoints(width, height) ==
    LET center_x == width \div 2
        center_y == height \div 2
        margin_x == Margin10(width)
        margin_y == Margin15(height)
    IN  << << center_x, margin_y >>,
           << width - margin_x, center_y >>,
           << center_x, height - margin_y >>,
           << margin_x, center_y >> >>

\* create_rectangular_roi: top-left, top-right, bottom-right, bottom-left
RectanglePoints(width, height) ==
    LET margin_x == Margin10(width)
        margin_y == Margin15(height)
    IN  << << margin_x, margin_y >>,
           << width - margin_x, margin_y >>,
           << width - margin_x, height - margin_y >>,
           << margin_x, height - margin_y >> >>

(***************************************************************************)
(* The inputs: boxes handed over by the tracker, vertices clicked by the   *)
(* user, frame sizes.                                                      *)
(***************************************************************************)
\* a box inside every polygon of the model, and one outside all of them
BoxIn == << 690, 190, 711, 211 >>
BoxOut == << 10, 10, 51, 51 >>
Boxes == {BoxIn, BoxOut}

\* boxes across the left and top edges of the polygons, for the vote
TestBoxes ==
    {BoxIn, BoxOut,
     << 100, 200, 128, 300 >>,  \* right side on the rectangle's left side
     << 100, 80, 140, 300 >>,   \* over the rectangle's top-left corner
     << 100, 80, 130, 120 >>,   \* one corner inside the rectangle
     << 600, 60, 681, 141 >>}   \* over the rhombus's top vertex

\* boxes with x1 > x2 or y1 > y2: BoxIn with both pairs swapped, the box on
\* the rectangle's left side with x1 and x2 swapped, BoxOut with y1 and y2
\* swapped
InvertedBoxes ==
    {<< 711, 211, 690, 190 >>, << 128, 200, 100, 300 >>, << 10, 51, 51, 10 >>}

\* the box of the n-th frame of a vehicle that drives through the frame
SlidingBox(n) == << 30 * n, 300, 30 * n + 41, 341 >>

\* the vertices the user clicks, in this order
Outline == << << 200, 100 >>, << 1000, 100 >>, << 1000, 600 >>,
              << 800, 300 >>, << 400, 500 >>, << 300, 300 >> >>

\* sizes of the frame handed to auto_define_roi and create_rectangular_roi
FrameSizes == {<< 1280, 720 >>, << 640, 480 >>, << 853, 487 >>}

(***************************************************************************)
(* The votes for the polygons and boxes above are tabulated once; every    *)
(* other pair is voted on when it is asked for.  The value is that of Vote *)
(* in both cases.                                                          *)
(***************************************************************************)
KnownPolygons ==
    {SubSeq(Outline, 1, n) : n \in 3..Len(Outline)}
        \cup {RhombusPoints(f[1], f[2]) : f \in FrameSizes}
        \cup {RectanglePoints(f[1], f[2]) : f \in FrameSizes}

KnownBoxes ==
    TestBoxes \cup InvertedBoxes \cup {SlidingBox(n) : n \in 1..(MaxSightings + 1)}

\* (@@ makes the table an explicit function, evaluated once)
VoteTable ==
    [k \in KnownPolygons \X KnownBoxes |-> Vote(k[1], TRUE, k[2])] @@ EmptyDict

\* a mutated threshold: 40% of the check points instead of 30%
is_vehicle_in_roi_40(points, defined, box) ==
    IF ~defined THEN TRUE
    ELSE 10 * points_inside(points, defined, check_points(box))
            >= 4 * Len(check_points(box))

\* a mutated default: nothing is in the ROI while none is defined
is_vehicle_in_roi_closed(points, defined, box) ==
    IF ~defined THEN FALSE ELSE Vote(points, defined, box)

\* is_vehicle_in_roi(box)
is_vehicle_in_roi(points, defined, box) ==
    IF ~defined THEN TRUE
    ELSE IF << points, box >> \in DOMAIN VoteTable
         THEN VoteTable[<< points, box >>]
         ELSE Vote(points, defined, box)

(***************************************************************************)
(* process_frame.  A detection is [id, cls, box, conf] with                *)
(* box = <<x1, y1, x2, y2>>.  The loop body works on the fields it         *)
(* changes: s.frame = current_vehicles_in_frame, s.roi =                   *)
(* current_vehicles_in_roi, s.seen = seen_ids, s.counts = vehicle_counts,  *)
(* s.hist = track_history, s.events = the "New ... detected in ROI!"       *)
(* lines printed so far by this call.                                      *)
(***************************************************************************)
SnapshotEntry(d) ==
    [class |-> ClassName(d.cls), box |-> d.box, confidence |-> d.conf]

\* self.current_vehicles_in_frame[track_id] = {...}
store_in_frame(s, d) ==
    [s EXCEPT !.frame = DictPut(s.frame, d.id, SnapshotEntry(d))]

\* a mutated counting step: no test of seen_ids before counting
count_vehicle_unguarded(s, d) ==
    LET class_name == ClassName(d.cls)
    IN  [s EXCEPT
            !.seen = s.seen \cup {d.id},
            !.counts = DictPut(s.counts, class_name,
                               DictGet(s.counts, class_name, 0) + 1),
            !.events = Append(s.events,
                              [class |-> class_name, id |-> d.id,
                               total |-> Cardinality(s.seen \cup {d.id})])]

\* a mutated counting step: an identity is counted again under a class name
\* that has no count yet
count_vehicle_per_class(s, d) ==
    IF d.id \in s.seen /\ ClassName(d.cls) \in DOMAIN s.counts THEN s
    ELSE LET class_name == ClassName(d.cls)
         IN  [s EXCEPT
                !.seen = s.seen \cup {d.id},
                !.counts = DictPut(s.counts, class_name,
                                   DictGet(s.counts, class_name, 0) + 1),
                !.events = Append(s.events,
                                  [class |-> class_name, id |-> d.id,
                                   total |-> Cardinality(s.seen \cup {d.id})])]

\* a mutated counting step: the total is printed before the identity is added
count_vehicle_total_before(s, d) ==
    IF d.id \in s.seen THEN s
    ELSE LET class_name == ClassName(d.cls)
         IN  [s EXCEPT
                !.seen = s.seen \cup {d.id},
                !.counts = DictPut(s.counts, class_name,
                                   DictGet(s.counts, class_name, 0) + 1),
                !.events = Append(s.events,
                                  [class |-> class_name, id |-> d.id,
                                   total |-> Cardinality(s.seen)])]

\* if track_id not in self.seen_ids: add, increment, print
count_vehicle(s, d) ==
    IF d.id \in s.seen THEN s
    ELSE LET class_name == ClassName(d.cls)
         IN  [s EXCEPT
                !.seen = s.seen \cup {d.id},
                !.counts = DictPut(s.counts, class_name,
                                   DictGet(s.counts, class_name, 0) + 1),
                !.events = Append(s.events,
                                  [class |-> class_name, id |-> d.id,
                                   total |-> Cardinality(s.seen \cup {d.id})])]

\* the body of "if self.is_vehicle_in_roi(box):"
store_in_roi(s, d) ==
    count_vehicle([s EXCEPT !.roi = DictPut(s.roi, d.id, SnapshotEntry(d))], d)

\* a mutated history update: the newest point is dropped on overflow
update_history_pop_last(s, d) ==
    LET h == Append(DictGet(s.hist, d.id, << >>), Centroid(d.box))
    IN  [s EXCEPT !.hist = DictPut(s.hist, d.id,
                    IF Len(h) > HistoryCap THEN SubSeq(h, 1, Len(h) - 1) ELSE h)]

\* append (cx, cy); pop(0) when longer than 30
update_history(s, d) ==
    LET h == Append(DictGet(s.hist, d.id, << >>), Centroid(d.box))
    IN  [s EXCEPT !.hist = DictPut(s.hist, d.id,
                    IF Len(h) > HistoryCap THEN Tail(h) ELSE h)]

\* x1 > x2 or y1 > y2
Inverted(box) == box[1] > box[3] \/ box[2] > box[4]

\* a mutated loop body: the history update sits inside the ROI branch
detect_history_in_roi_only(s, d, points, defined) ==
    IF is_vehicle_in_roi(points, defined, d.box)
    THEN update_history(store_in_roi(store_in_frame(s, d), d), d)
    ELSE store_in_frame(s, d)

\* a mutated loop body: a detection with an inverted box is skipped
detect_skips_inverted(s, d, points, defined) ==
    IF Inverted(d.box) THEN s
    ELSE update_history(
            IF is_vehicle_in_roi(points, defined, d.box)
            THEN store_in_roi(store_in_frame(s, d), d)
            ELSE store_in_frame(s, d), d)

\* the body of the loop over zip(boxes, track_ids, classes, confidences)
detect(s, d, points, defined) ==
    LET s1 == store_in_frame(s, d)
        s2 == IF is_vehicle_in_roi(points, defined, d.box)
              THEN store_in_roi(s1, d)
              ELSE s1
    IN  update_history(s2, d)

RECURSIVE detect_all(_, _, _, _)
detect_all(s, dets, points, defined) ==
    IF dets = << >> THEN s
    ELSE detect_all(detect(s, Head(dets), points, defined), Tail(dets),
                    points, defined)

\* a mutated start of process_frame: the two snapshots are not cleared
clear_snapshots_forgotten(s) == [s EXCEPT !.events = << >>]

\* a mutated start of process_frame: current_vehicles_in_roi is not cleared
clear_snapshots_frame_only(s) ==
    [s EXCEPT !.frame = EmptyDict, !.events = << >>]

\* self.current_vehicles_in_frame.clear(); self.current_vehicles_in_roi.clear()
clear_snapshots(s) ==
    [s EXCEPT !.frame = EmptyDict, !.roi = EmptyDict, !.events = << >>]

\* a mutated process_frame: the snapshots are cleared inside the branch
\* "if results[0].boxes.id is not None"
process_fields_clear_in_branch(s, dets, points, defined) ==
    IF dets = << >> THEN [s EXCEPT !.events = << >>]
    ELSE detect_all(clear_snapshots(s), dets, points, defined)

\* process_frame on the fields s; "boxes.id is not None" is dets # << >>
process_fields(s, dets, points, defined) ==
    detect_all(clear_snapshots(s), dets, points, defined)

(***************************************************************************)
(* The state: the fields of the counter, the position of run, and what the *)
(* last process_frame printed.  The g_ variables and last only observe.    *)
(***************************************************************************)
VARIABLES
    track_history,              \* dict: track id -> list of (cx, cy)
    seen_ids,                   \* set of counted track ids
    vehicle_counts,             \* dict: class name -> count
    current_vehicles_in_frame,  \* dict: track id -> detection of this frame
    current_vehicles_in_roi,    \* dict: track id -> detection inside the ROI
    roi_points,                 \* list of [x, y]
    roi_defined,
    frame_count,
    pc,         \* "idle", "define", "read", "key", "done"
    roi_type,   \* run's argument while run is active, else "none"
    events,     \* count events printed by the last process_frame
    final_counts_printed,   \* calls of print_final_counts so far
    last,       \* the operation that led to this state
    g_dets,     \* the detections of the last processed frame
    g_credits,  \* per id: increments of vehicle_counts since the last reset
    g_inroi,    \* ids classified in-ROI on some frame since the last reset
    g_log,      \* per id: the centroids of all sightings since the last reset
    g_first     \* per id: the class name of its first in-ROI classification
                \* since the last reset, "none" before it

fieldVars == << track_history, seen_ids, vehicle_counts,
                current_vehicles_in_frame, current_vehicles_in_roi >>
roiVars == << roi_points, roi_defined >>
printVars == << events, final_counts_printed >>
ghostVars == << g_dets, g_credits, g_inroi, g_log, g_first >>
vars == << track_history, seen_ids, vehicle_counts, current_vehicles_in_frame,
           current_vehicles_in_roi, roi_points, roi_defined, frame_count, pc,
           roi_type, events, final_counts_printed, last, g_dets, g_credits,
           g_inroi, g_log, g_first >>

(***************************************************************************)
(* The inputs.                                                             *)
(***************************************************************************)
\* track ids handed out by the tracker
Ids == {1, 2}
\* confidence, in percent
Confs == {80}

Detections(ids, classes, boxes) ==
    [id : ids, cls : classes, box : boxes, conf : Confs]

\* the detection lists of a frame: none, one, or two of distinct track ids
\* in either order
FramesOf(D) ==
    {<< >>} \cup {<< d >> : d \in D}
            \cup {<< x[1], x[2] >> : x \in {y \in D \X D : y[1].id # y[2].id}}

\* the scene of Spec: vehicle 1 is reported as a car (2) or as a truck (7),
\* vehicle 2 as a car; each is inside or outside the ROI
FrameInputs ==
    FramesOf(Detections({1}, {2, 7}, Boxes) \cup Detections({2}, {2}, Boxes))

\* the next vertex of the outline
NextOutlinePoint == Outline[(Len(roi_points) % Len(Outline)) + 1]

RoiTypes == {"interactive", "auto_rhombus", "auto_rectangle", "other"}

(***************************************************************************)
(* Observation of a frame: what each detection adds to the ghosts.         *)
(***************************************************************************)
\* what one detection adds: s is the state before it, s2 the state after it
ObserveOne(g, s, s2, d, in_roi) ==
    [credits |-> [g.credits EXCEPT ![d.id] =
                    @ + SumValues(s2.counts) - SumValues(s.counts)],
     inroi |-> IF in_roi THEN g.inroi \cup {d.id} ELSE g.inroi,
     log |-> [g.log EXCEPT ![d.id] = Append(@, Centroid(d.box))],
     first |-> IF in_roi /\ g.first[d.id] = "none"
               THEN [g.first EXCEPT ![d.id] = ClassName(d.cls)]
               ELSE g.first]

RECURSIVE Observe(_, _, _, _, _)
ObserveNext(g, s, s2, dets, points, defined) ==
    Observe(ObserveOne(g, s, s2, Head(dets),
                       is_vehicle_in_roi(points, defined, Head(dets).box)),
            s2, Tail(dets), points, defined)

Observe(g, s, dets, points, defined) ==
    IF dets = << >> THEN g
    ELSE ObserveNext(g, s, detect(s, Head(dets), points, defined), dets,
                     points, defined)

(***************************************************************************)
(* __init__                                                                *)
(***************************************************************************)
Init ==
    /\ track_history = EmptyDict
    /\ seen_ids = {}
    /\ vehicle_counts = EmptyDict
    /\ current_vehicles_in_frame = EmptyDict
    /\ current_vehicles_in_roi = EmptyDict
    /\ roi_points = << >>
    /\ roi_defined = FALSE
    /\ frame_count = 0
    /\ pc = "idle"
    /\ roi_type = "none"
    /\ events = << >>
    /\ final_counts_printed = 0
    /\ last = "init"
    /\ g_dets = << >>
    /\ g_credits = [i \in Ids |-> 0]
    /\ g_inroi = {}
    /\ g_log = [i \in Ids |-> << >>]
    /\ g_first = [i \in Ids |-> "none"]

(***************************************************************************)
(* process_frame(frame), the tracker returning dets for the frame.         *)
(***************************************************************************)
Fields ==
    [frame |-> current_vehicles_in_frame,
     roi |-> current_vehicles_in_roi,
     seen |-> seen_ids,
     counts |-> vehicle_counts,
     hist |-> track_history,
     events |-> << >>]

Ghosts ==
    [credits |-> g_credits, inroi |-> g_inroi, log |-> g_log, first |-> g_first]

\* the fields after the call are s1, the ghosts g1
FrameResult(s1, g1, dets) ==
    /\ frame_count' = frame_count + 1
    /\ current_vehicles_in_frame' = s1.frame
    /\ current_vehicles_in_roi' = s1.roi
    /\ seen_ids' = s1.seen
    /\ vehicle_counts' = s1.counts
    /\ track_history' = s1.hist
    /\ events' = s1.events
    /\ g_dets' = dets
    /\ g_credits' = g1.credits
    /\ g_inroi' = g1.inroi
    /\ g_log' = g1.log
    /\ g_first' = g1.first
    /\ last' = "frame"
    /\ UNCHANGED << roiVars, final_counts_printed >>

process_frame(dets) ==
    FrameResult(process_fields(Fields, dets, roi_points, roi_defined),
                Observe(Ghosts, clear_snapshots(Fields), dets, roi_points,
                        roi_defined),
                dets)

(***************************************************************************)
(* The 'r' branch of run: the fields of the counter as a record.           *)
(***************************************************************************)
Self ==
    [frame |-> current_vehicles_in_frame,
     roi |-> current_vehicles_in_roi,
     seen |-> seen_ids,
     counts |-> vehicle_counts,
     hist |-> track_history,
     points |-> roi_points,
     defined |-> roi_defined]

\* a mutated reset: vehicle_counts is not cleared
reset_keeps_counts(self) ==
    [self EXCEPT !.seen = {}, !.hist = EmptyDict]

\* a mutated reset: track_history is not cleared
reset_keeps_history(self) ==
    [self EXCEPT !.seen = {}, !.counts = EmptyDict]

\* a mutated reset: only the oldest point of each trajectory is dropped
reset_pops_history(self) ==
    [self EXCEPT !.seen = {}, !.counts = EmptyDict,
                 !.hist = [i \in DOMAIN self.hist |->
                             IF self.hist[i] = << >> THEN << >>
                             ELSE Tail(self.hist[i])]]

\* a mutated reset: the ROI is cleared with the counters
reset_clears_roi(self) ==
    [self EXCEPT !.seen = {}, !.counts = EmptyDict, !.hist = EmptyDict,
                 !.points = << >>, !.defined = FALSE]

\* a mutated reset: seen_ids is not cleared
reset_keeps_seen(self) ==
    [self EXCEPT !.counts = EmptyDict, !.hist = EmptyDict]

\* seen_ids.clear(); vehicle_counts.clear(); track_history.clear()
reset(self) ==
    [self EXCEPT !.seen = {}, !.counts = EmptyDict, !.hist = EmptyDict]

(***************************************************************************)
(* ROI definition.                                                         *)
(***************************************************************************)
\* a mutated fallback: "elif roi_type == 'auto_rectangle': ... else: ..."
\* after "if roi_type == 'interactive':", so none after a manual definition
after_define_elif(rt, points, defined) ==
    IF defined \/ rt = "interactive" THEN [points |-> points, defined |-> defined]
    ELSE IF rt = "auto_rectangle"
         THEN [points |-> RectanglePoints(display_width, display_height),
               defined |-> TRUE]
         ELSE [points |-> RhombusPoints(display_width, display_height),
               defined |-> TRUE]

\* run: "if not self.roi_defined:" create_rectangular_roi or auto_define_roi,
\* on the resized first frame
after_define(rt, points, defined) ==
    IF defined THEN [points |-> points, defined |-> defined]
    ELSE IF rt = "auto_rectangle"
         THEN [points |-> RectanglePoints(display_width, display_height),
               defined |-> TRUE]
         ELSE [points |-> RhombusPoints(display_width, display_height),
               defined |-> TRUE]

\* define_roi_interactive returns: to run, which goes on to its loop, or to
\* the caller of the method
define_returns(points, defined) ==
    IF roi_type = "none"
    THEN /\ roi_points' = points
         /\ roi_defined' = defined
         /\ pc' = "idle"
    ELSE LET r == after_define(roi_type, points, defined)
         IN  /\ roi_points' = r.points
             /\ roi_defined' = r.defined
             /\ pc' = "read"

\* run(source_path, roi_type) up to its first wait: the capture may not
\* open, the first frame may not be read
Run(rt, opened, first_read) ==
    /\ pc \in {"idle", "done"}
    /\ IF ~opened \/ ~first_read
       THEN /\ pc' = "done"
            /\ roi_type' = "none"
            /\ last' = "run_failed"
            /\ UNCHANGED roiVars
       ELSE IF rt = "interactive"
            THEN /\ roi_points' = << >>
                 /\ UNCHANGED roi_defined
                 /\ pc' = "define"
                 /\ roi_type' = rt
                 /\ last' = "run"
            ELSE LET r == after_define(rt, roi_points, roi_defined)
                 IN  /\ roi_points' = r.points
                     /\ roi_defined' = r.defined
                     /\ pc' = "read"
                     /\ roi_type' = rt
                     /\ last' = "run"
    /\ UNCHANGED << fieldVars, frame_count, printVars, ghostVars >>

\* define_roi_interactive(frame) called on the counter directly
define_roi_interactive ==
    /\ pc \in {"idle", "done"}
    /\ roi_points' = << >>
    /\ pc' = "define"
    /\ roi_type' = "none"
    /\ last' = "define_roi_interactive"
    /\ UNCHANGED << roi_defined, fieldVars, frame_count, printVars, ghostVars >>

\* mouse_callback, EVENT_LBUTTONDOWN at p
MouseLeft(p) ==
    /\ pc = "define"
    /\ roi_points' = Append(roi_points, p)
    /\ last' = "click"
    /\ UNCHANGED << roi_defined, pc, roi_type, fieldVars, frame_count, printVars,
                    ghostVars >>

\* mouse_callback, EVENT_RBUTTONDOWN
MouseRight ==
    /\ pc = "define"
    /\ roi_points' = IF roi_points # << >>
                     THEN SubSeq(roi_points, 1, Len(roi_points) - 1)
                     ELSE roi_points
    /\ last' = "unclick"
    /\ UNCHANGED << roi_defined, pc, roi_type, fieldVars, frame_count, printVars,
                    ghostVars >>

\* a mutated confirmation: two points are enough
KeySpace_two_points ==
    /\ pc = "define"
    /\ IF Len(roi_points) >= 2
       THEN define_returns(roi_points, TRUE)
       ELSE UNCHANGED << roi_points, roi_defined, pc >>
    /\ last' = "space"
    /\ UNCHANGED << roi_type, fieldVars, frame_count, printVars, ghostVars >>

\* key == ord(' '): confirm with at least 3 points, else keep waiting
KeySpace ==
    /\ pc = "define"
    /\ IF Len(roi_points) >= 3
       THEN define_returns(roi_points, TRUE)
       ELSE UNCHANGED << roi_points, roi_defined, pc >>
    /\ last' = "space"
    /\ UNCHANGED << roi_type, fieldVars, frame_count, printVars, ghostVars >>

\* key == 27: leave the definition loop
KeyEsc ==
    /\ pc = "define"
    /\ define_returns(roi_points, roi_defined)
    /\ last' = "esc"
    /\ UNCHANGED << roi_type, fieldVars, frame_count, printVars, ghostVars >>

\* auto_define_roi(frame), frame of the given size
auto_define_roi(width, height) ==
    /\ pc \in {"idle", "done"}
    /\ roi_points' = RhombusPoints(width, height)
    /\ roi_defined' = TRUE
    /\ last' = "auto_define_roi"
    /\ UNCHANGED << pc, roi_type, fieldVars, frame_count, printVars, ghostVars >>

\* create_rectangular_roi(frame), frame of the given size
create_rectangular_roi(width, height) ==
    /\ pc \in {"idle", "done"}
    /\ roi_points' = RectanglePoints(width, height)
    /\ roi_defined' = TRUE
    /\ last' = "create_rectangular_roi"
    /\ UNCHANGED << pc, roi_type, fieldVars, frame_count, printVars, ghostVars >>

(***************************************************************************)
(* The loop of run.                                                        *)
(***************************************************************************)
\* cap.read() gives a frame: process_frame, imshow, then waitKey
LoopFrame(dets) ==
    /\ pc = "read"
    /\ process_frame(dets)
    /\ pc' = "key"
    /\ UNCHANGED roi_type

\* a mutated end of the stream: run returns without print_final_counts
EndOfStream_return ==
    /\ pc = "read"
    /\ pc' = "done"
    /\ roi_type' = "none"
    /\ last' = "eof"
    /\ UNCHANGED << roiVars, fieldVars, frame_count, printVars, ghostVars >>

\* cap.read() gives no frame: break, print_final_counts
EndOfStream ==
    /\ pc = "read"
    /\ pc' = "done"
    /\ roi_type' = "none"
    /\ last' = "eof"
    /\ final_counts_printed' = final_counts_printed + 1
    /\ UNCHANGED << roiVars, fieldVars, frame_count, events, ghostVars >>

\* key == ord('q'): break, print_final_counts
KeyQ ==
    /\ pc = "key"
    /\ pc' = "done"
    /\ roi_type' = "none"
    /\ last' = "quit"
    /\ final_counts_printed' = final_counts_printed + 1
    /\ UNCHANGED << roiVars, fieldVars, frame_count, events, ghostVars >>

\* key == ord('r')
KeyR ==
    /\ pc = "key"
    /\ LET r == reset(Self)
       IN  /\ current_vehicles_in_frame' = r.frame
           /\ current_vehicles_in_roi' = r.roi
           /\ seen_ids' = r.seen
           /\ vehicle_counts' = r.counts
           /\ track_history' = r.hist
           /\ roi_points' = r.points
           /\ roi_defined' = r.defined
    /\ pc' = "read"
    /\ last' = "reset"
    /\ g_credits' = [i \in Ids |-> 0]
    /\ g_inroi' = {}
    /\ g_log' = [i \in Ids |-> << >>]
    /\ g_first' = [i \in Ids |-> "none"]
    /\ UNCHANGED << roi_type, frame_count, printVars, g_dets >>

\* any other key, or none within the wait
KeyOther ==
    /\ pc = "key"
    /\ pc' = "read"
    /\ last' = "key"
    /\ UNCHANGED << roi_type, roiVars, fieldVars, frame_count, printVars, ghostVars >>

\* process_frame(frame) called on the counter directly
CallProcessFrame(dets) ==
    /\ pc \in {"idle", "done"}
    /\ process_frame(dets)
    /\ UNCHANGED << pc, roi_type >>

(***************************************************************************)
(* Spec: the program, main() constructing a counter and calling run once.  *)
(***************************************************************************)
RunOnce ==
    /\ pc = "idle"
    /\ last = "init"
    /\ \E rt \in RoiTypes, opened \in BOOLEAN, first_read \in BOOLEAN :
            Run(rt, opened, first_read)

ClickOutline ==
    /\ Len(roi_points) < MaxPts
    /\ MouseLeft(NextOutlinePoint)

ReadFrame ==
    /\ frame_count < MaxFrames
    /\ \E dets \in FrameInputs : LoopFrame(dets)

Next ==
    \/ RunOnce
    \/ ClickOutline
    \/ MouseRight
    \/ KeySpace
    \/ KeyEsc
    \/ ReadFrame
    \/ EndOfStream
    \/ KeyQ
    \/ KeyR
    \/ KeyOther

Spec == Init /\ [][Next]_vars

(***************************************************************************)
(* SpecFair: the program with a scene of one vehicle, and the loop of run  *)
(* going on by itself: cap.read() returns, with a frame or without, and    *)
(* waitKey(1) returns after a millisecond, with a key or without.  The     *)
(* source has at most MaxFrames frames.                                    *)
(***************************************************************************)
FairInputs == FramesOf(Detections({1}, {2}, Boxes))

FairReadFrame ==
    /\ frame_count < MaxFrames
    /\ \E dets \in FairInputs : LoopFrame(dets)

NextFair ==
    \/ RunOnce
    \/ ClickOutline
    \/ MouseRight
    \/ KeySpace
    \/ KeyEsc
    \/ FairReadFrame
    \/ EndOfStream
    \/ KeyQ
    \/ KeyR
    \/ KeyOther

LoopRead == FairReadFrame \/ EndOfStream

LoopKey == KeyQ \/ KeyR \/ KeyOther

SpecFair ==
    Init /\ [][NextFair]_vars /\ WF_vars(LoopRead) /\ WF_vars(LoopKey)

(***************************************************************************)
(* SpecApi: the methods of a counter called directly, in any order:        *)
(* process_frame before, between and after the definitions of the ROI.     *)
(***************************************************************************)
\* exactly three check points on the rectangle's left side
BoxThree == << 100, 200, 128, 300 >>
\* exactly two check points inside the rectangle
BoxTwo == << 100, 80, 140, 300 >>

\* one detection of a car (2) or of a class outside the vocabulary (0) with
\* any test box, or two cars at the threshold of the vote, or a car with an
\* inverted box, alone or before or after a car inside the polygons
ApiFrameInputs ==
    FramesOf(Detections(Ids, {2}, {BoxThree, BoxTwo}))
        \cup {<< d >> : d \in Detections(Ids, {2, 0}, TestBoxes)}
        \cup {f \in FramesOf(Detections({1}, {2}, InvertedBoxes)
                                \cup Detections({2}, {2}, {BoxIn})) :
                    \E k \in 1..Len(f) : Inverted(f[k].box)}

ApiProcessFrame ==
    /\ frame_count < MaxApiFrames
    /\ \E dets \in ApiFrameInputs : CallProcessFrame(dets)

ApiAutoDefine == \E f \in FrameSizes : auto_define_roi(f[1], f[2])

ApiRectangle == \E f \in FrameSizes : create_rectangular_roi(f[1], f[2])

NextApi ==
    \/ ApiProcessFrame
    \/ ApiAutoDefine
    \/ ApiRectangle
    \/ define_roi_interactive
    \/ ClickOutline
    \/ MouseRight
    \/ KeySpace
    \/ KeyEsc

SpecApi == Init /\ [][NextApi]_vars

(***************************************************************************)
(* SpecHist: one run over a long stream.  Vehicle 1 is in every frame and  *)
(* moves 30 pixels a frame; vehicle 2 stands outside the ROI and is        *)
(* detected in some frames.                                                *)
(***************************************************************************)
HistInputs ==
    LET d1 == [id |-> 1, cls |-> 2, box |-> SlidingBox(frame_count + 1),
               conf |-> 80]
        d2 == [id |-> 2, cls |-> 7, box |-> BoxOut, conf |-> 80]
    IN  {<< d1 >>, << d1, d2 >>}

HistRun ==
    /\ pc = "idle"
    /\ last = "init"
    /\ \E rt \in {"auto_rhombus", "auto_rectangle"} : Run(rt, TRUE, TRUE)

HistReadFrame ==
    /\ frame_count < MaxSightings
    /\ \E dets \in HistInputs : LoopFrame(dets)

NextHist ==
    \/ HistRun
    \/ HistReadFrame
    \/ EndOfStream
    \/ KeyQ
    \/ KeyR
    \/ KeyOther

SpecHist == Init /\ [][NextHist]_vars

(***************************************************************************)
(* SpecCalls: an ROI is defined by auto_define_roi or                      *)
(* create_rectangular_roi, then process_frame is called with the           *)
(* detections of a tracker that was not told which classes to keep:        *)
(* vehicle 1 is reported as of class 0 or as a car, vehicle 2 as of        *)
(* class 0.                                                                *)
(***************************************************************************)
CallInputs ==
    FramesOf(Detections({1}, {0, 2}, Boxes) \cup Detections({2}, {0}, Boxes))

CallsDefine ==
    /\ frame_count = 0
    /\ \E f \in FrameSizes :
            \/ auto_define_roi(f[1], f[2])
            \/ create_rectangular_roi(f[1], f[2])

CallsProcessFrame ==
    /\ frame_count < MaxCalls
    /\ \E dets \in CallInputs : CallProcessFrame(dets)

NextCalls ==
    \/ CallsDefine
    \/ CallsProcessFrame

SpecCalls == Init /\ [][NextCalls]_vars

(***************************************************************************)
(* SpecDefine: define_roi_interactive called once on a new counter, the    *)
(* user clicking any of ClickPoints in any order, removing points and      *)
(* pressing space and escape at any time.                                  *)
(***************************************************************************)
ClickPoints == {<< 200, 100 >>, << 1000, 100 >>, << 1000, 600 >>}

DefineOnce ==
    /\ pc = "idle"
    /\ last = "init"
    /\ define_roi_interactive

ClickAny ==
    /\ Len(roi_points) < MaxPts
    /\ \E p \in ClickPoints : MouseLeft(p)

NextDefine ==
    \/ DefineOnce
    \/ ClickAny
    \/ MouseRight
    \/ KeySpace
    \/ KeyEsc

SpecDefine == Init /\ [][NextDefine]_vars

(***************************************************************************)
(* Properties.                                                             *)
(***************************************************************************)
History(i) == DictGet(track_history, i, << >>)

DetectedIds(dets) == {dets[k].id : k \in 1..Len(dets)}

\* C1: between two resets each identity is credited to vehicle_counts at
\* most once, and it is counted (in seen_ids, credited once) exactly when
\* is_vehicle_in_roi was true for it on some frame since the last reset,
\* however often it was in the ROI; right after a frame every identity of
\* the in-ROI snapshot is counted, so two new ones are both counted in it.
C1_CountedOnceIffInRoi ==
    /\ \A i \in Ids :
        /\ g_credits[i] <= 1
        /\ g_credits[i] = 1 <=> i \in g_inroi
        /\ i \in seen_ids <=> i \in g_inroi
    /\ seen_ids \subseteq Ids
    /\ last = "frame" =>
        /\ DOMAIN current_vehicles_in_roi \subseteq seen_ids
        /\ \A k \in 1..Len(events) : events[k].id \in DOMAIN current_vehicles_in_roi

\* vehicle 1 was inside, then outside, then inside again, and is counted once
C1_Witness ==
    /\ last = "frame"
    /\ g_log[1] = << Centroid(BoxIn), Centroid(BoxOut), Centroid(BoxIn) >>
    /\ g_credits[1] = 1
    /\ 1 \in seen_ids

\* C2: in every reachable state the values of vehicle_counts sum to the
\* size of seen_ids.
C2_SumInvariant == SumValues(vehicle_counts) = Cardinality(seen_ids)

\* two identities counted under two classes, after an earlier reset
C2_Witness ==
    /\ seen_ids = {1, 2}
    /\ DOMAIN vehicle_counts = {"car", "truck"}
    /\ frame_count >= 2
    /\ Len(g_log[1]) = 1

\* C3 as stated: right after a reset seen_ids, vehicle_counts, track_history
\* and both current-frame snapshots are empty.
C3_ResetClearsSnapshots ==
    last = "reset" =>
        /\ seen_ids = {}
        /\ DOMAIN vehicle_counts = {}
        /\ DOMAIN track_history = {}
        /\ DOMAIN current_vehicles_in_frame = {}
        /\ DOMAIN current_vehicles_in_roi = {}

\* C3, amended: right after a reset seen_ids, vehicle_counts and
\* track_history are empty, and the two snapshots still hold the detections
\* of the frame processed before the reset.
C3_ResetClearsCounters ==
    last = "reset" =>
        /\ seen_ids = {}
        /\ DOMAIN vehicle_counts = {}
        /\ DOMAIN track_history = {}
        /\ DOMAIN current_vehicles_in_frame = DetectedIds(g_dets)
        /\ \A k \in 1..Len(g_dets) :
            /\ current_vehicles_in_frame[g_dets[k].id] = SnapshotEntry(g_dets[k])
            /\ g_dets[k].id \in DOMAIN current_vehicles_in_roi
                <=> is_vehicle_in_roi(roi_points, roi_defined, g_dets[k].box)
        /\ DOMAIN current_vehicles_in_roi \subseteq DetectedIds(g_dets)

\* a reset right after a frame that had a vehicle inside the ROI
C3_Witness ==
    /\ last = "reset"
    /\ DOMAIN current_vehicles_in_roi # {}

\* C4: reset is idempotent: in every reachable state a second reset changes
\* nothing of what the first one leaves (counters, histories, snapshots,
\* ROI), and right after a reset another one changes nothing at all.
C4_ResetIdempotent ==
    /\ reset(reset(Self)) = reset(Self)
    /\ last = "reset" => reset(Self) = Self

\* a reset after two frames of a run with a confirmed polygon
C4_Witness ==
    /\ last = "reset"
    /\ frame_count >= 2
    /\ roi_defined
    /\ Len(roi_points) >= 3
    /\ DOMAIN current_vehicles_in_frame # {}

\* a step of the loop of run leaves the ROI alone
C5_LoopStep == pc \in {"read", "key"} => UNCHANGED roiVars

\* C5: in the loop of run (reading a frame, waiting for a key) no step
\* changes roi_points or roi_defined: neither process_frame nor reset nor
\* the end of the loop.
C5_RoiFrozenInLoop == [][C5_LoopStep]_vars

\* a polygon confirmed by hand, still there after frames and a reset
C5_Witness ==
    /\ last = "reset"
    /\ frame_count >= 2
    /\ roi_defined
    /\ roi_points = SubSeq(Outline, 1, 3)

\* C9: a frame appends to the history of each identity it detects the
\* centroid of that detection, in the ROI or not, counted or not, and leaves
\* every other history alone; if every identity it finds in the ROI was
\* counted before, seen_ids and vehicle_counts do not change; an identity
\* that was never in the ROI has a history and is not counted.
C9_FrameStep ==
    frame_count' = frame_count + 1 =>
        /\ \A i \in DOMAIN current_vehicles_in_frame' :
            /\ i \in DOMAIN track_history'
            /\ Len(History(i)) < HistoryCap =>
                track_history'[i] =
                    Append(History(i), Centroid(current_vehicles_in_frame'[i].box))
        /\ \A i \in Ids \ DOMAIN current_vehicles_in_frame' :
            DictGet(track_history', i, << >>) = History(i)
        /\ DOMAIN current_vehicles_in_roi' \subseteq seen_ids =>
            /\ seen_ids' = seen_ids
            /\ vehicle_counts' = vehicle_counts

C9_NeverInRoi ==
    \A i \in Ids :
        /\ History(i) # << >> <=> g_log[i] # << >>
        /\ (g_log[i] # << >> /\ i \notin g_inroi) => i \notin seen_ids

C9_HistoryForEveryDetection == [][C9_FrameStep]_vars /\ []C9_NeverInRoi

\* vehicle 1 is counted and has just been detected outside the ROI, vehicle
\* 2 was only ever seen outside
C9_Witness ==
    /\ last = "frame"
    /\ 1 \in seen_ids
    /\ 1 \in DOMAIN current_vehicles_in_frame
    /\ 1 \notin DOMAIN current_vehicles_in_roi
    /\ Len(History(1)) = 2
    /\ 2 \notin seen_ids
    /\ Len(History(2)) >= 1

\* C10: right after process_frame the keys of current_vehicles_in_frame are
\* the identities detected in that frame and the keys of
\* current_vehicles_in_roi are those of them classified in-ROI; nothing of
\* an earlier frame is left in either.
C10_SnapshotsReplaced ==
    last = "frame" =>
        /\ DOMAIN current_vehicles_in_frame = DetectedIds(g_dets)
        /\ DOMAIN current_vehicles_in_roi =
            {g_dets[k].id : k \in {j \in 1..Len(g_dets) :
                is_vehicle_in_roi(roi_points, roi_defined, g_dets[j].box)}}

\* vehicle 1 was in the ROI in an earlier frame and is not in this one
C10_Witness ==
    /\ last = "frame"
    /\ frame_count >= 2
    /\ 1 \in seen_ids
    /\ DOMAIN current_vehicles_in_frame = {2}
    /\ DOMAIN current_vehicles_in_roi = {}

\* the check points of box inside or on the boundary of the polygon
InsideCount(points, box) ==
    Cardinality({k \in 1..9 :
        PointPolygonTest(Doubled(points), check_points(box)[k]) >= 0})

\* C6: while roi_defined is false is_vehicle_in_roi is true for every box,
\* a frame puts each of its detections in the in-ROI snapshot, and every
\* identity sighted so far is counted, once.
C6_FailOpen ==
    ~roi_defined =>
        /\ \A b \in TestBoxes : is_vehicle_in_roi(roi_points, roi_defined, b)
        /\ last = "frame" =>
            DOMAIN current_vehicles_in_roi = DetectedIds(g_dets)
        /\ \A i \in Ids :
            g_log[i] # << >> => (i \in seen_ids /\ g_credits[i] = 1)

\* three vertices were clicked and the definition abandoned; a box far from
\* them is in the in-ROI snapshot and its vehicle is counted
C6_Witness ==
    /\ ~roi_defined
    /\ Len(roi_points) >= 3
    /\ last = "frame"
    /\ \E i \in DOMAIN current_vehicles_in_roi :
        /\ current_vehicles_in_roi[i].box = BoxOut
        /\ i \in seen_ids

\* C7: with a confirmed polygon (roi_defined, at least 3 vertices)
\* is_vehicle_in_roi is true of a box exactly when at least 3 of its 9 check
\* points are inside or on the boundary of the polygon, and a frame puts a
\* detection in the in-ROI snapshot exactly then.
C7_ThreeOfNine ==
    (roi_defined /\ Len(roi_points) >= 3) =>
        /\ last # "frame" =>
            \A b \in TestBoxes :
                is_vehicle_in_roi(roi_points, roi_defined, b)
                    <=> InsideCount(roi_points, b) >= 3
        /\ last = "frame" =>
            \A k \in 1..Len(g_dets) :
                g_dets[k].id \in DOMAIN current_vehicles_in_roi
                    <=> InsideCount(roi_points, g_dets[k].box) >= 3

\* one frame with a box of exactly 3 check points inside, which is in the
\* in-ROI snapshot, and a box of exactly 2, which is not
C7_Witness ==
    /\ roi_defined
    /\ Len(roi_points) >= 3
    /\ last = "frame"
    /\ \E i \in DOMAIN current_vehicles_in_roi :
        InsideCount(roi_points, current_vehicles_in_roi[i].box) = 3
    /\ \E i \in DOMAIN current_vehicles_in_frame \ DOMAIN current_vehicles_in_roi :
        InsideCount(roi_points, current_vehicles_in_frame[i].box) = 2

\* C8: after n sightings since the last reset the history of an identity is
\* the last min(n, 30) centroids of its sightings, oldest first; it is never
\* longer than 30, and after 40 sightings it has exactly 30 points.
C8_HistoryBound ==
    \A i \in Ids :
        LET n == Len(g_log[i])
            m == IF n < 30 THEN n ELSE 30
        IN  /\ Len(History(i)) = m
            /\ History(i) = SubSeq(g_log[i], n - m + 1, n)
            /\ Len(History(i)) <= 30
            /\ n = 40 => Len(History(i)) = 30

\* vehicle 1 was sighted 40 times since the last reset
C8_Witness ==
    /\ Len(g_log[1]) = 40
    /\ Len(History(1)) = 30
    /\ History(1)[1] = g_log[1][11]

\* a frame without detections empties the snapshots and changes nothing else
C11_EmptyFrameStep ==
    (frame_count' = frame_count + 1 /\ g_dets' = << >>) =>
        /\ current_vehicles_in_frame' = EmptyDict
        /\ current_vehicles_in_roi' = EmptyDict
        /\ events' = << >>
        /\ UNCHANGED << seen_ids, vehicle_counts, track_history, roiVars >>

\* C11: process_frame on a frame with zero detections empties
\* current_vehicles_in_frame and current_vehicles_in_roi and leaves seen_ids,
\* vehicle_counts, track_history, roi_points and roi_defined as they were.
C11_EmptyFrame == [][C11_EmptyFrameStep]_vars

\* the first frame had a vehicle in the ROI, which was counted; the second
\* frame has no detection
C11_Witness ==
    /\ last = "frame"
    /\ frame_count = 2
    /\ g_dets = << >>
    /\ seen_ids # {}
    /\ DOMAIN track_history # {}
    /\ DOMAIN current_vehicles_in_frame = {}
    /\ DOMAIN current_vehicles_in_roi = {}

\* the box with its corners put in order
Normalized(box) ==
    << IF box[1] <= box[3] THEN box[1] ELSE box[3],
       IF box[2] <= box[4] THEN box[2] ELSE box[4],
       IF box[1] <= box[3] THEN box[3] ELSE box[1],
       IF box[2] <= box[4] THEN box[4] ELSE box[2] >>

\* C12 as stated: a detection with an inverted box (x1 > x2 or y1 > y2) is
\* rejected, that is neither put in a snapshot nor counted by the frame,
\* and the other detections of the frame are in the snapshot of the frame.
C12_InvertedRejected ==
    last = "frame" =>
        \A k \in 1..Len(g_dets) :
            IF Inverted(g_dets[k].box)
            THEN /\ g_dets[k].id \notin DOMAIN current_vehicles_in_frame
                 /\ g_dets[k].id \notin DOMAIN current_vehicles_in_roi
                 /\ \A e \in 1..Len(events) : events[e].id # g_dets[k].id
            ELSE g_dets[k].id \in DOMAIN current_vehicles_in_frame

\* C12, amended: a detection with an inverted box is processed like any
\* other: it is in the snapshot of the frame with its box as given, it is
\* in the in-ROI snapshot, and then counted, exactly when the vote is true
\* for the box with its corners put in order, and its centroid is appended
\* to its history; the other detections of the frame are processed too.
C12_InvertedProcessed ==
    last = "frame" =>
        /\ DOMAIN current_vehicles_in_frame = DetectedIds(g_dets)
        /\ \A k \in 1..Len(g_dets) :
            Inverted(g_dets[k].box) =>
                /\ current_vehicles_in_frame[g_dets[k].id] = SnapshotEntry(g_dets[k])
                /\ g_dets[k].id \in DOMAIN current_vehicles_in_roi
                    <=> is_vehicle_in_roi(roi_points, roi_defined,
                                          Normalized(g_dets[k].box))
                /\ g_dets[k].id \in DOMAIN current_vehicles_in_roi
                    => g_dets[k].id \in seen_ids
                /\ History(g_dets[k].id) # << >>
                /\ History(g_dets[k].id)[Len(History(g_dets[k].id))]
                    = Centroid(Normalized(g_dets[k].box))

\* with a confirmed polygon, a frame has a detection with an inverted box
\* that is counted and then a detection with an ordered box
C12_Witness ==
    /\ last = "frame"
    /\ roi_defined
    /\ Len(roi_points) >= 3
    /\ Len(g_dets) = 2
    /\ Inverted(g_dets[1].box)
    /\ ~Inverted(g_dets[2].box)
    /\ g_dets[1].id \in DOMAIN current_vehicles_in_roi
    /\ events # << >>
    /\ events[1].id = g_dets[1].id
    /\ g_dets[2].id \in DOMAIN current_vehicles_in_roi

\* C13: a detection of a class outside the vocabulary is processed like any
\* other, under the class name 'unknown': it is in the snapshot of the
\* frame, and in the in-ROI snapshot when the vote is true, with class
\* 'unknown'; its centroid is appended to its history; when it is in the
\* ROI its identity is counted, and vehicle_counts['unknown'] is the number
\* of counted identities that were of an unknown class when they were first
\* in the ROI, each credited once, the counts adding up to the size of
\* seen_ids.
C13_UnknownClassCounted ==
    /\ last = "frame" =>
        \A k \in 1..Len(g_dets) :
            g_dets[k].cls \notin DOMAIN vehicle_classes =>
                /\ g_dets[k].id \in DOMAIN current_vehicles_in_frame
                /\ current_vehicles_in_frame[g_dets[k].id].class = "unknown"
                /\ g_dets[k].id \in DOMAIN current_vehicles_in_roi
                    <=> is_vehicle_in_roi(roi_points, roi_defined, g_dets[k].box)
                /\ g_dets[k].id \in DOMAIN current_vehicles_in_roi =>
                    /\ current_vehicles_in_roi[g_dets[k].id].class = "unknown"
                    /\ g_dets[k].id \in seen_ids
                /\ History(g_dets[k].id) # << >>
                /\ History(g_dets[k].id)[Len(History(g_dets[k].id))]
                    = Centroid(g_dets[k].box)
                /\ \A e \in 1..Len(events) :
                    events[e].id = g_dets[k].id => events[e].class = "unknown"
    /\ DictGet(vehicle_counts, "unknown", 0)
        = Cardinality({i \in seen_ids : g_first[i] = "unknown"})
    /\ \A i \in Ids : g_credits[i] <= 1
    /\ SumValues(vehicle_counts) = Cardinality(seen_ids)

\* vehicle 1 was in the ROI with an unknown class in two frames, vehicle 2
\* in the second one: the count of 'unknown' is 2
C13_Witness ==
    /\ last = "frame"
    /\ frame_count = 2
    /\ roi_defined
    /\ Len(g_log[1]) = 2
    /\ g_first[1] = "unknown"
    /\ DOMAIN current_vehicles_in_roi = {1, 2}
    /\ current_vehicles_in_roi[1].class = "unknown"
    /\ Len(events) = 1
    /\ events[1] = [class |-> "unknown", id |-> 2, total |-> 2]
    /\ vehicle_counts = DictPut(EmptyDict, "unknown", 2)

\* the step of run that ends the definition of the ROI goes on to the loop
\* with a confirmed polygon
C14_DefinitionEnds ==
    /\ (pc = "define" /\ pc' # "define") =>
        /\ pc' = "read"
        /\ roi_defined'
        /\ Len(roi_points') >= 3
        /\ last' = "space" => (Len(roi_points) >= 3 /\ roi_points' = roi_points)
        /\ last' = "esc" =>
            roi_points' = << << 640, 108 >>, << 1152, 360 >>,
                             << 640, 612 >>, << 128, 360 >> >>
    /\ (pc = "idle" /\ pc' = "read") =>
        /\ roi_type' # "interactive"
        /\ roi_defined'
        /\ Len(roi_points') = 4

\* in the loop of run, and once a frame was processed, the ROI is confirmed
C14_ConfirmedInLoop ==
    (pc \in {"read", "key"} \/ frame_count > 0) =>
        /\ roi_defined
        /\ Len(roi_points) >= 3

\* C14: in run, whatever roi_type is and however the interactive definition
\* ends (confirmed, or abandoned after any number of clicks), process_frame
\* is called only with roi_defined true and at least 3 vertices; an
\* abandoned definition is replaced by the rhombus of the 1280x720 frame,
\* and the step that ends the definition goes on to the loop.
C14_RoiBeforeFirstFrame == [][C14_DefinitionEnds]_vars /\ []C14_ConfirmedInLoop

\* the interactive definition was abandoned and a frame was processed with
\* the rhombus
C14_Witness ==
    /\ roi_type = "interactive"
    /\ last = "frame"
    /\ frame_count = 1
    /\ roi_defined
    /\ roi_points = RhombusPoints(display_width, display_height)
    /\ DOMAIN current_vehicles_in_roi # {}

\* a step of the manual definition
C15_DefineStep ==
    pc = "define" =>
        /\ (roi_defined' /\ ~roi_defined) =>
            /\ last' = "space"
            /\ Len(roi_points) >= 3
            /\ roi_points' = roi_points
            /\ pc' = "idle"
        /\ (last' = "space" /\ Len(roi_points) < 3) =>
            UNCHANGED << roi_points, roi_defined, pc, fieldVars >>
        /\ last' = "esc" =>
            /\ ~roi_defined'
            /\ roi_points' = roi_points
            /\ pc' = "idle"
        /\ last' \in {"click", "unclick"} =>
            /\ ~roi_defined'
            /\ pc' = "define"

\* C15: during a manual definition on a new counter, whatever the clicks,
\* removals, confirmations and abandon, roi_defined becomes true only by
\* the space key pressed with at least 3 points; the space key with fewer
\* points changes nothing and the definition goes on; the escape key ends
\* the definition with roi_defined still false.
C15_ConfirmNeedsThree ==
    [][C15_DefineStep]_vars /\ [](roi_defined => Len(roi_points) >= 3)

\* the space key was pressed with two points: the definition is still open
C15_Witness ==
    /\ last = "space"
    /\ pc = "define"
    /\ Len(roi_points) = 2
    /\ ~roi_defined

\* the position of identity i in the detection list
PositionOf(dets, i) == CHOOSE j \in 1..Len(dets) : dets[j].id = i

\* the count events of a frame are those of the identities it adds to
\* seen_ids, one each, in the order of the detection list, numbered on from
\* the size of seen_ids before the frame; a reset restarts the numbering
C16_EventStep ==
    /\ frame_count' = frame_count + 1 =>
        /\ Len(events') = Cardinality(seen_ids' \ seen_ids)
        /\ {events'[k].id : k \in 1..Len(events')} = seen_ids' \ seen_ids
        /\ \A k \in 1..Len(events') :
            /\ events'[k].id \in DetectedIds(g_dets')
            /\ events'[k].class
                = ClassName(g_dets'[PositionOf(g_dets', events'[k].id)].cls)
            /\ events'[k].total = Cardinality(seen_ids) + k
            /\ \A m \in 1..Len(events') :
                k < m => PositionOf(g_dets', events'[k].id)
                            < PositionOf(g_dets', events'[m].id)
    /\ frame_count' = frame_count => seen_ids' \in {seen_ids, {}}

\* C16: each identity added to seen_ids gives exactly one count event with
\* that identity, its class name and the size of seen_ids right after the
\* addition; the events of a frame follow the detection list, so the totals
\* between two resets are 1, 2, 3, ...; an identity that is already in
\* seen_ids gives no event.
C16_OneEventPerInsertion == [][C16_EventStep]_vars

\* one frame counts vehicle 2 and then vehicle 1, as listed, with the totals
\* 1 and 2; it is not the first frame, and the first to sight vehicle 1
\* since the start or the last reset
C16_Witness ==
    /\ last = "frame"
    /\ frame_count >= 2
    /\ Len(g_dets) = 2
    /\ g_dets[1].id = 2
    /\ events = << [class |-> "car", id |-> 2, total |-> 1],
                   [class |-> "truck", id |-> 1, total |-> 2] >>
    /\ Len(g_log[1]) = 1

ClassNames == {vehicle_classes[c] : c \in DOMAIN vehicle_classes} \cup {"unknown"}

\* C17: the count of each class is the number of counted identities that
\* carried that class name on the frame that first classified them in-ROI
\* since the last reset, so a different class name reported for a counted
\* identity on a later frame changes no count.
C17_FirstLabelCredited ==
    /\ \A c \in ClassNames :
        DictGet(vehicle_counts, c, 0)
            = Cardinality({i \in seen_ids : g_first[i] = c})
    /\ DOMAIN vehicle_counts \subseteq ClassNames
    /\ \A i \in Ids : i \in seen_ids <=> g_first[i] # "none"

\* vehicle 1 was counted as a car and is now in the ROI as a truck
C17_Witness ==
    /\ last = "frame"
    /\ g_first[1] = "car"
    /\ 1 \in DOMAIN current_vehicles_in_roi
    /\ current_vehicles_in_roi[1].class = "truck"
    /\ 1 \in seen_ids
    /\ DictGet(vehicle_counts, "car", 0) = 1
    /\ DictGet(vehicle_counts, "truck", 0) = 0

\* the rhombus and the rectangle of the claim, for margins mx, my and
\* centre cx, cy
C18_Rhombus(w, h, mx, my, cx, cy) ==
    << << cx, my >>, << w - mx, cy >>, << cx, h - my >>, << mx, cy >> >>

C18_Rectangle(w, h, mx, my) ==
    << << mx, my >>, << w - mx, my >>, << w - mx, h - my >>, << mx, h - my >> >>

\* C18: auto_define_roi and create_rectangular_roi leave roi_defined true
\* and roi_points with exactly 4 vertices, whatever roi_points held before:
\* for a frame of width w and height h, with mx = 10% of w, my = 15% of h,
\* cx = w/2, cy = h/2, all truncated to integers, the rhombus (cx, my),
\* (w-mx, cy), (cx, h-my), (mx, cy) and the rectangle (mx, my), (w-mx, my),
\* (w-mx, h-my), (mx, h-my).
C18_AutoPolygons ==
    /\ last = "auto_define_roi" =>
        /\ roi_defined
        /\ Len(roi_points) = 4
        /\ \E f \in FrameSizes :
            roi_points = C18_Rhombus(f[1], f[2], (10 * f[1]) \div 100,
                                     (15 * f[2]) \div 100, f[1] \div 2,
                                     f[2] \div 2)
    /\ last = "create_rectangular_roi" =>
        /\ roi_defined
        /\ Len(roi_points) = 4
        /\ \E f \in FrameSizes :
            roi_points = C18_Rectangle(f[1], f[2], (10 * f[1]) \div 100,
                                       (15 * f[2]) \div 100)

\* the rhombus of a frame of 853 x 487 pixels, where all four of mx = 85,
\* my = 73, cx = 426, cy = 243 are truncated, defined after a frame was
\* processed
C18_Witness ==
    /\ last = "auto_define_roi"
    /\ frame_count = 1
    /\ roi_defined
    /\ roi_points = << << 426, 73 >>, << 768, 243 >>,
                       << 426, 414 >>, << 85, 243 >> >>

\* C19: in every state reached by calls of define_roi_interactive (with any
\* clicks, confirmation or abandon), auto_define_roi and
\* create_rectangular_roi in any order, a redefinition included,
\* roi_defined implies that roi_points has at least 3 vertices.
C19_ConfirmedHasPolygon == roi_defined => Len(roi_points) >= 3

\* C20 as stated: in every state every identity of current_vehicles_in_roi
\* is in seen_ids, so 'Current in ROI' is at most 'Total ROI Vehicles'.
C20_RoiSnapshotCounted ==
    /\ DOMAIN current_vehicles_in_roi \subseteq seen_ids
    /\ Cardinality(DOMAIN current_vehicles_in_roi) <= Cardinality(seen_ids)

\* no identity was sighted since the last reset
NothingSinceReset == \A i \in Ids : g_log[i] = << >>

\* C20, amended: right after process_frame, when the two numbers are drawn,
\* and in every state in which an identity was sighted since the last
\* reset, every identity of current_vehicles_in_roi is in seen_ids; a reset
\* empties seen_ids and leaves current_vehicles_in_roi as the last frame
\* made it, until the next process_frame.
C20_RoiSnapshotCountedAfterFrame ==
    /\ (last = "frame" \/ ~NothingSinceReset) =>
        /\ DOMAIN current_vehicles_in_roi \subseteq seen_ids
        /\ Cardinality(DOMAIN current_vehicles_in_roi) <= Cardinality(seen_ids)
    /\ last = "reset" =>
        /\ seen_ids = {}
        /\ DOMAIN current_vehicles_in_roi =
            {g_dets[k].id : k \in {j \in 1..Len(g_dets) :
                is_vehicle_in_roi(roi_points, roi_defined, g_dets[j].box)}}

\* a reset right after a frame that had both vehicles in the ROI: the in-ROI
\* snapshot holds two identities and seen_ids none
C20_Witness ==
    /\ last = "reset"
    /\ DOMAIN current_vehicles_in_roi = {1, 2}
    /\ seen_ids = {}
    /\ NothingSinceReset

\* the identities of the two snapshots
SnapshotIds ==
    DOMAIN current_vehicles_in_frame \cup DOMAIN current_vehicles_in_roi

\* C21: between the steps of run, after any frames and resets, every
\* identity of seen_ids has a non-empty history; every identity of the two
\* snapshots has one too, ending with the centroid of its box in the
\* snapshot, unless a reset came after the frame that made the snapshots,
\* and then all histories are empty.
C21_HistoryOfCountedAndCurrent ==
    /\ \A i \in seen_ids : History(i) # << >>
    /\ (last = "frame" \/ ~NothingSinceReset) =>
        \A i \in SnapshotIds :
            /\ i \in DOMAIN current_vehicles_in_frame
            /\ History(i) # << >>
            /\ History(i)[Len(History(i))]
                = Centroid(current_vehicles_in_frame[i].box)
    /\ last = "reset" => DOMAIN track_history = {}

\* the second or a later frame of the run is the first since the start or
\* the last reset to sight the two vehicles, vehicle 1 in the ROI and vehicle
\* 2 outside of it; a key other than 'q' and 'r' was pressed since
C21_Witness ==
    /\ last = "key"
    /\ frame_count >= 2
    /\ seen_ids = {1}
    /\ DOMAIN current_vehicles_in_frame = {1, 2}
    /\ DOMAIN current_vehicles_in_roi = {1}
    /\ Len(History(1)) = 1
    /\ Len(History(2)) = 1
    /\ Len(g_log[2]) = 1

\* the steps of the loop of run: a frame is processed between cap.read() and
\* waitKey, a reset or a quit is acted on right after a frame, and
\* print_final_counts is called when the loop is left and only then
C22_LoopStep ==
    /\ frame_count' = frame_count + 1 =>
        /\ pc = "read"
        /\ pc' = "key"
        /\ seen_ids' = process_fields(Fields, g_dets', roi_points, roi_defined).seen
        /\ track_history'
            = process_fields(Fields, g_dets', roi_points, roi_defined).hist
    /\ (pc' # pc /\ last' \in {"reset", "quit"}) =>
        /\ pc = "key"
        /\ last = "frame"
        /\ frame_count' = frame_count
    /\ (pc' # pc /\ last' = "quit") => pc' = "done"
    /\ final_counts_printed' =
        IF pc \in {"read", "key"} /\ pc' = "done"
        THEN final_counts_printed + 1
        ELSE final_counts_printed

\* while a key is awaited the frame is fully processed, and the final counts
\* were printed once if the loop was left and not at all before
C22_BetweenFrames ==
    /\ pc = "key" =>
        /\ last = "frame"
        /\ DOMAIN current_vehicles_in_frame = DetectedIds(g_dets)
        /\ \A k \in 1..Len(g_dets) :
            /\ History(g_dets[k].id) # << >>
            /\ is_vehicle_in_roi(roi_points, roi_defined, g_dets[k].box)
                => g_dets[k].id \in seen_ids
    /\ final_counts_printed =
        IF pc = "done" /\ last \in {"eof", "quit"} THEN 1 ELSE 0

InLoop == pc \in {"read", "key"}

LoopLeft == pc = "done" /\ final_counts_printed = 1

\* C22: in the loop of run a frame is processed completely (snapshots
\* cleared, detections classified and counted, histories updated) before a
\* key is looked at, so a reset or a quit is acted on only between frames,
\* and before the next frame is read; with a source of finitely many
\* frames the loop is left, and 'q' leaves it at once; print_final_counts
\* is called exactly once when the loop is left.
C22_FramesCompleteAndLoopEnds ==
    /\ [][C22_LoopStep]_vars
    /\ []C22_BetweenFrames
    /\ InLoop ~> LoopLeft

\* the source ended after two or more frames, a vehicle was counted, and the
\* final counts were printed once
C22_Witness ==
    /\ pc = "done"
    /\ last = "eof"
    /\ frame_count >= 2
    /\ seen_ids # {}
    /\ final_counts_printed = 1

====
